---- MODULE Spec2Model ----
(***************************************************************************)
(* State-machine model of the CourseScheduler component                    *)
(* (src/course-scheduler/src/CourseScheduler.tsx): the section snapshot,   *)
(* the include-closed filter, the selected titles, the stored assignment   *)
(* ("solution"), the conflict set and the status line, with one action per *)
(* event handler.  Pure helpers of the source are operators of the same    *)
(* name.                                                                   *)
(*                                                                         *)
(* Encodings.  A JS string is a TLA+ string.  "string | null" time fields  *)
(* use "" for null (timeStrToMinutes and prettyTime treat both alike: !t). *)
(* An optional value (number | undefined, T | null, NaN) is a sequence of  *)
(* length 0 or 1.  A JS object used as an ordered map (chosen, solution)   *)
(* is a sequence of [title, sec] entries in key insertion order.           *)
(***************************************************************************)
EXTENDS Integers, Sequences, FiniteSets, TLC

VARIABLES
    records,          \* useState<CourseRecord[]>            (line 123)
    includeClosed,    \* useState(false)                     (line 124)
    selectedTitles,   \* useState<string[]>                  (line 126)
    solution,         \* useState<Record<..> | null>         (line 127)
    status,           \* useState<string>                    (line 128)
    conflictCRNs,     \* useState<Set<string>>               (line 129)
    last,             \* history: the last handler call, the branch it took
    genIncludeClosed, \* history: the filter value when the stored solution was generated
    overlapArgs,      \* the two blocks of a call of overlap
    overlapResult,    \* what that call returned
    blocksArg,        \* the section of a call of blocksForSection
    blocksResult,     \* what that call returned
    activePlan,       \* studyPlans[activePlanIndex]: its course entries   (line 236)
    prereqMap,        \* useMemo over activePlan                (line 239)
    dependentsAdj,    \* useMemo over prereqMap                 (line 260)
    hoveredCode,      \* useState<string | null>                (line 136)
    allPrereqAncestors, \* useMemo: the last value computed     (line 277)
    allDependents,    \* useMemo: the last value computed       (line 302)
    walk,             \* which traversal the render is in: "idle", "ancestors", "dependents"
    stack,            \* the stack of that traversal
    out,              \* the out set of that traversal
    added,            \* history: the codes added to out, in order
    previous          \* history: the hovered code and the sets of the render before this one

\* the state of the scheduler
vars == <<records, includeClosed, selectedTitles, solution, status, conflictCRNs,
          last, genIncludeClosed>>

\* a call of the helper overlap, a call of the helper blocksForSection
helperVars == <<overlapArgs, overlapResult, blocksArg, blocksResult>>

\* the prerequisite highlighting of the study plan pane
hoverVars == <<activePlan, prereqMap, dependentsAdj, hoveredCode, allPrereqAncestors, allDependents,
               walk, stack, out, added, previous>>

allVars == <<vars, helperVars, hoverVars>>

(***************************************************************************)
(* Bounds of the model.                                                    *)
(***************************************************************************)
MaxRecords == 3      \* sections in one uploaded snapshot
MaxSelected == 2     \* length of selectedTitles
MaxMeetings == 2     \* meeting entries of a section handed to blocksForSection

(***************************************************************************)
(* Optional values.                                                        *)
(***************************************************************************)
None == <<>>
Some(x) == <<x>>
Null == <<>>

(***************************************************************************)
(* Strings.                                                                *)
(***************************************************************************)
CharAt(s, i) == SubSeq(s, i, i)

DigitVal ==
    [c \in {"0", "1", "2", "3", "4", "5", "6", "7", "8", "9"} |->
        CASE c = "0" -> 0 [] c = "1" -> 1 [] c = "2" -> 2 [] c = "3" -> 3
          [] c = "4" -> 4 [] c = "5" -> 5 [] c = "6" -> 6 [] c = "7" -> 7
          [] c = "8" -> 8 [] c = "9" -> 9]

IsDigit(c) == c \in DOMAIN DigitVal
IsSpace(c) == c \in {" ", "\t", "\n"}

RECURSIVE StripLeft(_)
StripLeft(s) ==
    IF Len(s) > 0 /\ IsSpace(CharAt(s, 1)) THEN StripLeft(SubSeq(s, 2, Len(s))) ELSE s

RECURSIVE StripRight(_)
StripRight(s) ==
    IF Len(s) > 0 /\ IsSpace(CharAt(s, Len(s)))
    THEN StripRight(SubSeq(s, 1, Len(s) - 1)) ELSE s

\* String.prototype.trim
Trim(s) == StripRight(StripLeft(s))

\* s.slice(0, -2) and s.slice(-2)
SliceHead(s) == IF Len(s) <= 2 THEN "" ELSE SubSeq(s, 1, Len(s) - 2)
SliceTail(s) == IF Len(s) <= 2 THEN s ELSE SubSeq(s, Len(s) - 1, Len(s))

RECURSIVE DigitsValue(_, _, _)
\* the value of the longest digit prefix of s from position i, acc so far
DigitsValue(s, i, acc) ==
    IF i <= Len(s) /\ IsDigit(CharAt(s, i))
    THEN DigitsValue(s, i + 1, acc * 10 + DigitVal[CharAt(s, i)])
    ELSE acc

\* parseInt on a string without leading white space: an optional sign, then
\* the longest digit prefix; NaN (None) when there is no digit
signOf(t) == IF Len(t) > 0 /\ CharAt(t, 1) = "-" THEN -1 ELSE 1
unsignedPart(t) ==
    IF Len(t) > 0 /\ CharAt(t, 1) \in {"-", "+"} THEN SubSeq(t, 2, Len(t)) ELSE t
parseDigits(sign, body) ==
    IF Len(body) = 0 \/ ~IsDigit(CharAt(body, 1)) THEN None
    ELSE Some(sign * DigitsValue(body, 1, 0))
parseStripped(t) == parseDigits(signOf(t), unsignedPart(t))

\* parseInt(s, 10)
parseInt(s) == parseStripped(StripLeft(s))

\* hh * 60 + mm, or null when either is NaN
minutesOf(hh, mm) == IF hh = None \/ mm = None THEN Null ELSE Some(hh[1] * 60 + mm[1])

timeStrToMinutes(t) ==
    IF t = "" \/ Len(t) < 3 THEN Null
    ELSE minutesOf(parseInt(SliceHead(t)), parseInt(SliceTail(t)))

(***************************************************************************)
(* Blocks.                                                                 *)
(***************************************************************************)
DAYS == <<"monday", "tuesday", "wednesday", "thursday", "friday">>

\* `${r.subject}${r.courseNumber} - ${r.courseTitle}`.trim()
titleKey(r) == Trim(r.subject \o r.courseNumber \o " - " \o r.courseTitle)

\* DAYS.forEach(d => { if (mt[d]) out.push({...}) }) for the flagged days ds
dayBlocks(rec, start, end, ds) ==
    [i \in 1..Len(ds) |->
        [day |-> ds[i], start |-> start, end |-> end,
         title |-> rec.courseTitle,
         crn |-> rec.courseReferenceNumber,
         open |-> rec.openSection]]

\* the blocks of an entry with a block for a flagged weekend day as well
blocksAtEveryFlaggedDay(rec, mt, start, end) ==
    IF start = Null \/ end = Null THEN <<>>
    ELSE dayBlocks(rec, start[1], end[1],
                   SelectSeq(DAYS \o <<"saturday", "sunday">>, LAMBDA d : d \in mt.days))

\* if (start === null || end === null) return; else one block per flagged weekday
blocksAt(rec, mt, start, end) ==
    IF start = Null \/ end = Null THEN <<>>
    ELSE dayBlocks(rec, start[1], end[1], SelectSeq(DAYS, LAMBDA d : d \in mt.days))

\* the blocks of one meeting entry: none when meetingTime is missing or a time
\* does not parse, else one per flagged weekday in DAYS order
blocksForMeeting(rec, m) ==
    IF m.meetingTime = None THEN <<>>
    ELSE blocksAt(rec, m.meetingTime[1],
                  timeStrToMinutes(m.meetingTime[1].beginTime),
                  timeStrToMinutes(m.meetingTime[1].endTime))

RECURSIVE blocksFrom(_, _)
blocksFrom(rec, i) ==
    IF i > Len(rec.meetingsFaculty) THEN <<>>
    ELSE blocksForMeeting(rec, rec.meetingsFaculty[i]) \o blocksFrom(rec, i + 1)

blocksForSection(rec) == blocksFrom(rec, 1)

\* overlap with closed intervals: touching blocks count as overlapping
overlapClosed(a, b) == a.day = b.day /\ a.start <= b.end /\ b.start <= a.end

overlap(a, b) == a.day = b.day /\ a.start < b.end /\ b.start < a.end

\* isCompatible testing the candidate against the first chosen block only
isCompatibleFirstOnly(chosen, candidate) ==
    ~\E i \in 1..Len(candidate) : Len(chosen) > 0 /\ overlap(candidate[i], chosen[1])

isCompatible(chosen, candidate) ==
    ~\E i \in 1..Len(candidate) : \E j \in 1..Len(chosen) :
        overlap(candidate[i], chosen[j])

(***************************************************************************)
(* The sections an uploaded snapshot is drawn from.  A CourseRecord is an  *)
(* immutable object; records, candidate lists and the solution hold        *)
(* references to it, here its index in Catalog.                            *)
(***************************************************************************)
Meet(b, e, ds) == [meetingTime |-> Some([beginTime |-> b, endTime |-> e, days |-> ds])]

Section(crn, subj, num, title, open, seats, meetings) ==
    [courseReferenceNumber |-> crn, subject |-> subj, courseNumber |-> num,
     courseTitle |-> title, openSection |-> open, seatsAvailable |-> seats,
     meetingsFaculty |-> meetings]

Catalog ==
    << Section("102", "CS", "101", "Intro", TRUE, Some(3),
               <<Meet("TBA", "TBA", {"monday"}),
                 Meet("0900", "1000", {"tuesday"})>>),
       Section("101", "CS", "101", "Intro", TRUE, Some(5),
               <<Meet("0900", "1000", {"monday", "wednesday"})>>),
       Section("201", "MA", "101", "Calc", TRUE, Some(4),
               <<Meet("0930", "1030", {"wednesday"})>>),
       Section("202", "MA", "101", "Calc", FALSE, Some(0),
               <<Meet("0930", "1030", {"tuesday"})>>),
       Section("401", "PH", "101", "Lab", FALSE, Some(2),
               <<Meet("1100", "1200", {"monday"}),
                 Meet("1130", "1230", {"monday"})>>),
       Section("301", "EN", "101", "Online", TRUE, Some(9),
               <<Meet("", "", {"monday"})>>),
       Section("302", "EN", "101", "Online", TRUE, None,
               <<Meet("1000", "1100", {"monday", "saturday"})>>),
       Section("303", "EN", "101", "Online", TRUE, None,
               <<Meet("0800", "0900", {"tuesday"})>>) >>

Refs == 1..Len(Catalog)
Sec(ref) == Catalog[ref]

\* pure functions of a section, evaluated once per catalog section
SectionBlocks == [ref \in Refs |-> blocksForSection(Catalog[ref])]
SectionKey == [ref \in Refs |-> titleKey(Catalog[ref])]

blocksOf(ref) == SectionBlocks[ref]
keyOf(ref) == SectionKey[ref]
crnOf(ref) == Catalog[ref].courseReferenceNumber

\* the non-empty snapshots a file upload can carry: the runs of at most
\* MaxRecords consecutive catalog sections
Snapshots ==
    {[k \in 1..(p[2] - p[1] + 1) |-> p[1] + k - 1] :
        p \in {q \in Refs \X Refs : q[1] <= q[2] /\ q[2] - q[1] < MaxRecords}}

AllTitles == {keyOf(ref) : ref \in Refs}

(***************************************************************************)
(* Derived data (the useMemo values).                                      *)
(***************************************************************************)
Range(s) == {s[i] : i \in 1..Len(s)}

\* titles: the distinct title keys of the sections that pass the filter
titlesOf(recs, inc) ==
    {keyOf(r) : r \in {x \in Range(recs) : inc \/ Sec(x).openSection}}

NoStart == 99999

RECURSIVE MinOf(_, _)
MinOf(s, i) ==
    IF i = Len(s) THEN s[i].start
    ELSE LET rest == MinOf(s, i + 1) IN IF s[i].start < rest THEN s[i].start ELSE rest

\* Math.min over the block starts, or 99999 without blocks
minStart(bs) == IF Len(bs) = 0 THEN NoStart ELSE MinOf(bs, 1)
earliestStart(r) == minStart(blocksOf(r))

seatsOrDefault(r) ==
    IF Sec(r).seatsAvailable = None THEN -1 ELSE Sec(r).seatsAvailable[1]

\* the comparator without its last key, the earliest start
compareSectionsWithoutStart(a, b) ==
    IF Sec(a).openSection # Sec(b).openSection
    THEN (IF Sec(a).openSection THEN -1 ELSE 1)
    ELSE seatsOrDefault(b) - seatsOrDefault(a)

\* the comparator of arr.sort: negative when a goes first
compareSections(a, b) ==
    IF Sec(a).openSection # Sec(b).openSection
    THEN (IF Sec(a).openSection THEN -1 ELSE 1)
    ELSE IF seatsOrDefault(b) # seatsOrDefault(a)
         THEN seatsOrDefault(b) - seatsOrDefault(a)
         ELSE earliestStart(a) - earliestStart(b)

RECURSIVE insertSorted(_, _)
\* x after every element that does not come after it (stable)
insertSorted(sorted, x) ==
    IF sorted = <<>> THEN <<x>>
    ELSE IF compareSections(x, Head(sorted)) < 0 THEN <<x>> \o sorted
         ELSE <<Head(sorted)>> \o insertSorted(Tail(sorted), x)

RECURSIVE sortSections(_, _)
\* Array.prototype.sort with compareSections: a stable sort
sortSections(arr, i) ==
    IF i = 0 THEN <<>> ELSE insertSorted(sortSections(arr, i - 1), arr[i])

\* the sections of title t among recs, whatever their open flag
sectionsOfTitle(recs, t) == SelectSeq(recs, LAMBDA r : keyOf(r) = t)

\* the open sections of title t among recs, whatever the filter says
eligibleOpenOnly(recs, inc, t) ==
    SelectSeq(recs, LAMBDA r : Sec(r).openSection /\ keyOf(r) = t)

\* the sections of title t among recs that pass the filter, in records order
eligibleOfTitle(recs, inc, t) ==
    SelectSeq(recs, LAMBDA r : (inc \/ Sec(r).openSection) /\ keyOf(r) = t)

sorted(group) == sortSections(group, Len(group))

\* titleToSections built without the open/closed filter
titleToSectionsIgnoringFilter(recs, inc, t) == sorted(sectionsOfTitle(recs, t))

\* titleToSections.get(t) || []  for the given records and filter
titleToSectionsOf(recs, inc, t) == sorted(eligibleOfTitle(recs, inc, t))

titles == titlesOf(records, includeClosed)
titleToSections(t) == titleToSectionsOf(records, includeClosed, t)

(***************************************************************************)
(* Ordered maps (JS objects with string keys).                             *)
(***************************************************************************)
keysOf(obj) == [i \in 1..Len(obj) |-> obj[i].title]
hasKey(obj, t) == \E i \in 1..Len(obj) : obj[i].title = t
getKey(obj, t) == obj[CHOOSE i \in 1..Len(obj) : obj[i].title = t].sec

\* obj[sec.courseTitle] = sec : keyed by the display title, not the title key
assignByCourseTitle(obj, t, sec) ==
    IF hasKey(obj, Sec(sec).courseTitle)
    THEN [i \in 1..Len(obj) |->
            IF obj[i].title = Sec(sec).courseTitle
            THEN [title |-> Sec(sec).courseTitle, sec |-> sec] ELSE obj[i]]
    ELSE Append(obj, [title |-> Sec(sec).courseTitle, sec |-> sec])

\* obj[t] = sec : in place for an existing key, else appended
assign(obj, t, sec) ==
    IF hasKey(obj, t)
    THEN [i \in 1..Len(obj) |-> IF obj[i].title = t THEN [title |-> t, sec |-> sec]
                                ELSE obj[i]]
    ELSE Append(obj, [title |-> t, sec |-> sec])

\* delete obj[t]
unassign(obj, t) == SelectSeq(obj, LAMBDA e : e.title # t)

(***************************************************************************)
(* Conflict Detector.                                                      *)
(***************************************************************************)
RECURSIVE flatBlocks(_, _)
\* Object.values(sol).forEach(sec => blocks.push(...blocksForSection(sec)))
flatBlocks(sol, i) ==
    IF i > Len(sol) THEN <<>>
    ELSE blocksOf(sol[i].sec) \o flatBlocks(sol, i + 1)

\* the index pairs i < j of overlapping blocks
overlappingPairs(blocks) ==
    {p \in (1..Len(blocks)) \X (1..Len(blocks)) :
        p[1] < p[2] /\ overlap(blocks[p[1]], blocks[p[2]])}

\* conflictSet.add(blocks[i].crn); conflictSet.add(blocks[j].crn) for each pair
crnsOfPairs(blocks, hits) ==
    {blocks[p[1]].crn : p \in hits} \cup {blocks[p[2]].crn : p \in hits}

\* only blocks[i].crn is added
crnsOfPairsFirstOnly(blocks, hits) == {blocks[p[1]].crn : p \in hits}

conflictsAmong(blocks) == crnsOfPairs(blocks, overlappingPairs(blocks))
conflictsAmongFirstOnly(blocks) == crnsOfPairsFirstOnly(blocks, overlappingPairs(blocks))

\* findConflicts adding only the first block's CRN of an overlapping pair
findConflictsFirstOnly(sol) == conflictsAmongFirstOnly(flatBlocks(sol, 1))

findConflicts(sol) == conflictsAmong(flatBlocks(sol, 1))

(***************************************************************************)
(* Course codes (normalize, codeToInfo).                                   *)
(***************************************************************************)
LowerCase == "abcdefghijklmnopqrstuvwxyz"
UpperCase == "ABCDEFGHIJKLMNOPQRSTUVWXYZ"

\* one character of String.prototype.toUpperCase
upperChar(c) ==
    IF \E i \in 1..Len(LowerCase) : CharAt(LowerCase, i) = c
    THEN CharAt(UpperCase, CHOOSE i \in 1..Len(LowerCase) : CharAt(LowerCase, i) = c)
    ELSE c

RECURSIVE toUpperCase(_)
toUpperCase(s) ==
    IF Len(s) = 0 THEN "" ELSE upperChar(CharAt(s, 1)) \o toUpperCase(SubSeq(s, 2, Len(s)))

RECURSIVE removeSpaces(_)
\* x.replace(/\s+/g, "")
removeSpaces(s) ==
    IF Len(s) = 0 THEN ""
    ELSE IF IsSpace(CharAt(s, 1)) THEN removeSpaces(SubSeq(s, 2, Len(s)))
         ELSE CharAt(s, 1) \o removeSpaces(SubSeq(s, 2, Len(s)))

normalize(x) == toUpperCase(removeSpaces(x))

\* `${r.subject}${r.courseNumber}`.toUpperCase() of each catalog section
SectionCode == [ref \in Refs |-> toUpperCase(Catalog[ref].subject \o Catalog[ref].courseNumber)]

\* codeToInfo.get(code): the entry of the last record with that code, or undefined
codeToInfo(code) ==
    LET hit == {i \in 1..Len(records) : SectionCode[records[i]] = code}
    IN  IF hit = {} THEN None
        ELSE LET lastIdx == CHOOSE i \in hit : \A j \in hit : j <= i
             IN  Some([title |-> keyOf(records[lastIdx]),
                       total |-> Cardinality(hit),
                       open |-> Cardinality({i \in hit : Sec(records[i]).openSection})])

\* the course codes a study plan entry can carry
PlanCodes == {"CS101", "ma 101", "EN101", "PH101", "XX999"}
NormalizedCode == [c \in PlanCodes |-> normalize(c)]

(***************************************************************************)
(* Schedule Solver.                                                        *)
(***************************************************************************)
\* targetTitles without the filter on empty candidate lists
targetTitlesAll(sel) == sel

\* selectedTitles.filter(t => titleToSections.get(t)?.length)
targetTitlesOf(sel) == SelectSeq(sel, LAMBDA t : Len(titleToSections(t)) > 0)

\* blocks.forEach(() => chosenBlocks.pop())
popBlocks(chosenBlocks, n) == SubSeq(chosenBlocks, 1, Len(chosenBlocks) - n)

\* The result of dfs: its return value, and the mutable chosen and chosenBlocks
\* as the call leaves them (they are threaded through the recursion).
dfsResult(ok, chosen, chosenBlocks) ==
    [ok |-> ok, chosen |-> chosen, chosenBlocks |-> chosenBlocks]

RECURSIVE dfsFrom(_, _, _, _, _)
RECURSIVE forCandidates(_, _, _, _, _, _)
RECURSIVE tryCandidate(_, _, _, _, _, _, _)
RECURSIVE afterRecursion(_, _, _, _, _)

\* dfs(i) with its for loop at the k-th candidate:
\*   if (i >= targetTitles.length) return true;
\*   const t = targetTitles[i]; const candidates = titleToSections.get(t) || [];
dfsFrom(targetTitles, i, k, chosen, chosenBlocks) ==
    IF i > Len(targetTitles) THEN dfsResult(TRUE, chosen, chosenBlocks)
    ELSE forCandidates(targetTitles, i, k, chosen, chosenBlocks,
                       titleToSections(targetTitles[i]))

\*   for (const sec of candidates) { const blocks = blocksForSection(sec); ... }
\*   return false;
forCandidates(targetTitles, i, k, chosen, chosenBlocks, candidates) ==
    IF k > Len(candidates) THEN dfsResult(FALSE, chosen, chosenBlocks)
    ELSE tryCandidate(targetTitles, i, k, chosen, chosenBlocks,
                      candidates[k], blocksOf(candidates[k]))

\*   if (!blocks.length) continue;
\*   if (isCompatible(chosenBlocks, blocks)) {
\*     chosen[t] = sec; blocks.forEach(b => chosenBlocks.push(b)); dfs(i + 1) ... }
tryCandidate(targetTitles, i, k, chosen, chosenBlocks, sec, blocks) ==
    IF Len(blocks) = 0 \/ ~isCompatible(chosenBlocks, blocks)
    THEN dfsFrom(targetTitles, i, k + 1, chosen, chosenBlocks)
    ELSE afterRecursion(targetTitles, i, k, blocks,
                        dfsFrom(targetTitles, i + 1, 1,
                                assign(chosen, targetTitles[i], sec),
                                chosenBlocks \o blocks))

\*   if (dfs(i + 1)) return true;
\*   blocks.forEach(() => chosenBlocks.pop()); delete chosen[t];   and the next candidate
afterRecursion(targetTitles, i, k, blocks, r) ==
    IF r.ok THEN r
    ELSE dfsFrom(targetTitles, i, k + 1, unassign(r.chosen, targetTitles[i]),
                 popBlocks(r.chosenBlocks, Len(blocks)))

dfs(targetTitles, i, chosen, chosenBlocks) ==
    dfsFrom(targetTitles, i, 1, chosen, chosenBlocks)

(***************************************************************************)
(* Manual override helpers.                                                *)
(***************************************************************************)
\* options.find(...) ?? options[0] : falling back to the first option
pickOptionOrFirst(options, crn) ==
    LET hit == {i \in 1..Len(options) : crnOf(options[i]) = crn}
    IN  IF hit = {} THEN (IF Len(options) = 0 THEN None ELSE Some(options[1]))
        ELSE Some(options[CHOOSE i \in hit : \A j \in hit : i <= j])

\* options.find(s => s.courseReferenceNumber === crn): the first match, or undefined
pickOption(options, crn) ==
    LET hit == {i \in 1..Len(options) : crnOf(options[i]) = crn}
    IN  IF hit = {} THEN None
        ELSE Some(options[CHOOSE i \in hit : \A j \in hit : i <= j])

\* { [title]: pick } : the other entries dropped
overrideEntryOnly(sol, title, pick) == <<[title |-> title, sec |-> pick]>>

\* the entry added after the existing ones instead of replacing the title's
overrideEntryAppended(sol, title, pick) == Append(sol, [title |-> title, sec |-> pick])

\* { ...solution, [title]: pick }
overrideEntry(sol, title, pick) == assign(sol, title, pick)

(***************************************************************************)
(* Status lines.                                                           *)
(***************************************************************************)
StNoRecords == "JSON parsed, but no records found."
StLoaded(n) == "Loaded " \o ToString(n) \o " sections from JSON"
StSelectOne == "Select at least one course."
StGenerated == "Schedule generated."
StInfeasible == "No conflict-free combination found."
StOverrideConflicts == "Manual override applied (conflicts highlighted)."
StOverride == "Manual override applied."
StCleared == "Cleared selected courses."

\* the history record of a handler call: the handler, the branch it took,
\* for an overrideSection call that found a solution its arguments, and for a
\* toggleSelectByCode call its argument
CallWith(op, outcome, title, crn) ==
    [op |-> op, outcome |-> outcome, title |-> title, crn |-> crn, code |-> ""]
CallWithCode(op, outcome, codeRaw) ==
    [op |-> op, outcome |-> outcome, title |-> "", crn |-> "", code |-> codeRaw]
Call(op, outcome) == CallWith(op, outcome, "", "")

(***************************************************************************)
(* Initial state: the useState initial values.                             *)
(***************************************************************************)
SchedulerInit ==
    /\ records = <<>>
    /\ includeClosed = FALSE
    /\ selectedTitles = <<>>
    /\ solution = Null
    /\ status = ""
    /\ conflictCRNs = {}
    /\ last = Call("init", "")
    /\ genIncludeClosed = FALSE

\* no call of blocksForSection under way
BlocksIdle == blocksArg = <<>> /\ blocksResult = None

\* no call of a helper under way
HelperIdle == overlapArgs = <<>> /\ overlapResult = None /\ BlocksIdle

\* no plan entries, nothing hovered, no traversal under way
HoverIdle ==
    /\ activePlan = <<>>
    /\ prereqMap = <<>>
    /\ dependentsAdj = <<>>
    /\ hoveredCode = Null
    /\ allPrereqAncestors = {}
    /\ allDependents = {}
    /\ walk = "idle"
    /\ stack = <<>>
    /\ out = {}
    /\ added = <<>>
    /\ previous = Null

Init == SchedulerInit /\ HelperIdle /\ HoverIdle

(***************************************************************************)
(* Handlers.                                                               *)
(***************************************************************************)
\* ingestJson without the reset of the solution and the conflict set
ingestJsonKeepingSolution(arr) ==
    IF Len(arr) = 0
    THEN /\ status' = StNoRecords
         /\ last' = Call("ingestJson", "rejected")
         /\ UNCHANGED <<records, includeClosed, selectedTitles, solution,
                        conflictCRNs, genIncludeClosed>>
    ELSE /\ records' = arr
         /\ status' = StLoaded(Len(arr))
         /\ last' = Call("ingestJson", "loaded")
         /\ UNCHANGED <<includeClosed, selectedTitles, solution, conflictCRNs,
                        genIncludeClosed>>

\* ingestJson without the test for an empty array
ingestJsonAcceptingEmpty(arr) ==
    /\ records' = arr
    /\ solution' = Null
    /\ conflictCRNs' = {}
    /\ status' = StLoaded(Len(arr))
    /\ last' = Call("ingestJson", "loaded")
    /\ genIncludeClosed' = FALSE
    /\ UNCHANGED <<includeClosed, selectedTitles>>

\* ingestJson(raw), arr being what raw yields (an empty arr for a wrong shape)
ingestJson(arr) ==
    IF Len(arr) = 0
    THEN /\ status' = StNoRecords
         /\ last' = Call("ingestJson", "rejected")
         /\ UNCHANGED <<records, includeClosed, selectedTitles, solution,
                        conflictCRNs, genIncludeClosed>>
    ELSE /\ records' = arr
         /\ solution' = Null
         /\ conflictCRNs' = {}
         /\ status' = StLoaded(Len(arr))
         /\ last' = Call("ingestJson", "loaded")
         /\ genIncludeClosed' = FALSE
         /\ UNCHANGED <<includeClosed, selectedTitles>>

\* the "Include closed sections" checkbox
setIncludeClosed ==
    /\ includeClosed' = ~includeClosed
    /\ last' = Call("setIncludeClosed", "")
    /\ UNCHANGED <<records, selectedTitles, solution, status, conflictCRNs,
                   genIncludeClosed>>

toggleIn(sel, t) ==
    IF t \in Range(sel) THEN SelectSeq(sel, LAMBDA x : x # t) ELSE Append(sel, t)

\* onClick of a title button of the offered list
offeredTitleClick(t) ==
    /\ t \in titles
    /\ Len(toggleIn(selectedTitles, t)) <= MaxSelected
    /\ selectedTitles' = toggleIn(selectedTitles, t)
    /\ solution' = Null
    /\ conflictCRNs' = {}
    /\ last' = Call("offeredTitleClick", "")
    /\ genIncludeClosed' = FALSE
    /\ UNCHANGED <<records, includeClosed, status>>

\* removeTitle without the reset of the solution and the conflict set
removeTitleKeepingSolution(t) ==
    /\ t \in Range(selectedTitles)
    /\ selectedTitles' = SelectSeq(selectedTitles, LAMBDA x : x # t)
    /\ last' = Call("removeTitle", "")
    /\ UNCHANGED <<records, includeClosed, status, solution, conflictCRNs, genIncludeClosed>>

removeTitle(t) ==
    /\ t \in Range(selectedTitles)
    /\ selectedTitles' = SelectSeq(selectedTitles, LAMBDA x : x # t)
    /\ solution' = Null
    /\ conflictCRNs' = {}
    /\ last' = Call("removeTitle", "")
    /\ genIncludeClosed' = FALSE
    /\ UNCHANGED <<records, includeClosed, status>>

toggleSelectByCode(codeRaw) ==
    LET code == NormalizedCode[codeRaw]
        info == codeToInfo(code)
    IN  IF info = None
        THEN /\ last' = CallWithCode("toggleSelectByCode", "notOffered", codeRaw)
             /\ UNCHANGED <<records, includeClosed, selectedTitles, solution, status,
                            conflictCRNs, genIncludeClosed>>
        ELSE IF Len(titleToSections(info[1].title)) = 0
             THEN /\ last' = CallWithCode("toggleSelectByCode", "notAvailable", codeRaw)
                  /\ UNCHANGED <<records, includeClosed, selectedTitles, solution,
                                 status, conflictCRNs, genIncludeClosed>>
             ELSE /\ Len(toggleIn(selectedTitles, info[1].title)) <= MaxSelected
                  /\ selectedTitles' = toggleIn(selectedTitles, info[1].title)
                  /\ solution' = Null
                  /\ conflictCRNs' = {}
                  /\ last' = CallWithCode("toggleSelectByCode", "toggled", codeRaw)
                  /\ genIncludeClosed' = FALSE
                  /\ UNCHANGED <<records, includeClosed, status>>

\* the Clear button is disabled while nothing is selected
clearSelections ==
    /\ Len(selectedTitles) > 0
    /\ selectedTitles' = <<>>
    /\ solution' = Null
    /\ conflictCRNs' = {}
    /\ status' = StCleared
    /\ last' = Call("clearSelections", "")
    /\ genIncludeClosed' = FALSE
    /\ UNCHANGED <<records, includeClosed>>

\* the two outcomes of generateSchedule after the search: if (ok) {...} else {...}
storeSearchResult(r) ==
    IF r.ok
    THEN /\ solution' = Some(r.chosen)
         /\ conflictCRNs' = findConflicts(r.chosen)
         /\ status' = StGenerated
         /\ last' = Call("generateSchedule", "ok")
         /\ genIncludeClosed' = includeClosed
         /\ UNCHANGED <<records, includeClosed, selectedTitles>>
    ELSE /\ solution' = Null
         /\ conflictCRNs' = {}
         /\ status' = StInfeasible
         /\ last' = Call("generateSchedule", "infeasible")
         /\ genIncludeClosed' = FALSE
         /\ UNCHANGED <<records, includeClosed, selectedTitles>>

\* generateSchedule without the early return for an empty targetTitles
generateScheduleAlwaysSearching ==
    storeSearchResult(dfs(targetTitlesOf(selectedTitles), 1, <<>>, <<>>))

generateSchedule ==
    IF Len(targetTitlesOf(selectedTitles)) = 0
    THEN /\ status' = StSelectOne
         /\ solution' = Null
         /\ last' = Call("generateSchedule", "nothing")
         /\ genIncludeClosed' = FALSE
         /\ UNCHANGED <<records, includeClosed, selectedTitles, conflictCRNs>>
    ELSE storeSearchResult(dfs(targetTitlesOf(selectedTitles), 1, <<>>, <<>>))

\* overrideSection(title, crn); the select that calls it is rendered per entry of
\* the solution, crn is the value the change event carries
overrideSection(title, crn) ==
    IF solution = Null
    THEN /\ last' = Call("overrideSection", "noSolution")
         /\ UNCHANGED <<records, includeClosed, selectedTitles, solution, status,
                        conflictCRNs, genIncludeClosed>>
    ELSE LET pick == pickOption(titleToSections(title), crn)
         IN  IF pick = None
             THEN /\ last' = CallWith("overrideSection", "noPick", title, crn)
                  /\ UNCHANGED <<records, includeClosed, selectedTitles, solution,
                                 status, conflictCRNs, genIncludeClosed>>
             ELSE LET next == overrideEntry(solution[1], title, pick[1])
                      conf == findConflicts(next)
                  IN  /\ solution' = Some(next)
                      /\ conflictCRNs' = conf
                      /\ status' = IF conf # {} THEN StOverrideConflicts ELSE StOverride
                      /\ last' = CallWith("overrideSection", "applied", title, crn)
                      /\ UNCHANGED <<records, includeClosed, selectedTitles,
                                     genIncludeClosed>>

\* the titles overrideSection is called with: the select that calls it is
\* rendered for each entry of the solution (without a solution, where the call
\* only meets the guard, the selected titles stand for any title)
overrideTitles ==
    IF solution = Null THEN Range(selectedTitles) ELSE Range(keysOf(solution[1]))

\* the identifiers the change event carries: the CRNs of the snapshot, and
\* "999" for one that no section has
overrideCRNs == {crnOf(r) : r \in Range(records)} \cup {"999"}

Next ==
    \/ (\E arr \in Snapshots \cup {<<>>} : ingestJson(arr)) /\ UNCHANGED <<helperVars, hoverVars>>
    \/ setIncludeClosed /\ UNCHANGED <<helperVars, hoverVars>>
    \/ (\E t \in AllTitles : offeredTitleClick(t)) /\ UNCHANGED <<helperVars, hoverVars>>
    \/ (\E t \in AllTitles : removeTitle(t)) /\ UNCHANGED <<helperVars, hoverVars>>
    \/ (\E c \in PlanCodes : toggleSelectByCode(c)) /\ UNCHANGED <<helperVars, hoverVars>>
    \/ clearSelections /\ UNCHANGED <<helperVars, hoverVars>>
    \/ generateSchedule /\ UNCHANGED <<helperVars, hoverVars>>
    \/ (\E t \in overrideTitles : \E crn \in overrideCRNs : overrideSection(t, crn)) /\ UNCHANGED <<helperVars, hoverVars>>

Spec == Init /\ [][Next]_allVars

(***************************************************************************)
(* Calls of the pure helper overlap on sample blocks: two weekdays and the *)
(* times of the design's examples, degenerate intervals included.          *)
(***************************************************************************)
SampleDays == {"monday", "tuesday"}
SampleTimes == {900, 950, 1000, 1010}
SampleBlocks ==
    [day : SampleDays, start : SampleTimes, end : SampleTimes,
     title : {"Intro"}, crn : {"101"}, open : {TRUE}]

OverlapInit ==
    /\ SchedulerInit
    /\ HoverIdle
    /\ overlapArgs \in SampleBlocks \X SampleBlocks
    /\ overlapResult = None
    /\ BlocksIdle

callOverlap ==
    /\ overlapResult = None
    /\ overlapResult' = Some(overlap(overlapArgs[1], overlapArgs[2]))
    /\ UNCHANGED <<overlapArgs, blocksArg, blocksResult, vars, hoverVars>>

OverlapNext == callOverlap

OverlapSpec == OverlapInit /\ [][OverlapNext]_allVars

(***************************************************************************)
(* Calls of the pure helper blocksForSection on sample sections: up to     *)
(* MaxMeetings meeting entries, each without meetingTime or with times     *)
(* that are null, too short, not numeric in the hour or the minute part,   *)
(* or well formed, and with weekday and weekend flags.                     *)
(***************************************************************************)
SampleBeginTimes == {"", "12", "TBA", "09x0", "0900"}
SampleEndTimes == {"", "TBA", "1030"}
SampleDayFlags ==
    {{}, {"monday"}, {"saturday"}, {"friday", "monday"},
     {"monday", "saturday", "wednesday"}}
SampleMeetings ==
    {[meetingTime |-> None]} \cup
    {Meet(b, e, ds) : b \in SampleBeginTimes, e \in SampleEndTimes, ds \in SampleDayFlags}
SampleMeetingLists == UNION {[1..n -> SampleMeetings] : n \in 0..MaxMeetings}
SampleSections ==
    {Section("101", "CS", "101", "Intro", TRUE, Some(5), ms) : ms \in SampleMeetingLists}

BlocksInit ==
    /\ SchedulerInit
    /\ HoverIdle
    /\ overlapArgs = <<>>
    /\ overlapResult = None
    /\ blocksArg \in SampleSections
    /\ blocksResult = None

callBlocksForSection ==
    /\ blocksResult = None
    /\ blocksResult' = Some(blocksForSection(blocksArg))
    /\ UNCHANGED <<blocksArg, overlapArgs, overlapResult, vars, hoverVars>>

BlocksNext == callBlocksForSection

BlocksSpec == BlocksInit /\ [][BlocksNext]_allVars

(***************************************************************************)
(* The prerequisite graph of the active study plan.  A Map<string, Set>    *)
(* is a sequence of [key, vals] entries in key insertion order, vals being *)
(* the members of the Set in insertion order.                              *)
(***************************************************************************)
MaxCourses == 3      \* course entries of the active plan

\* the codes a plan entry carries, as written in the file
RawCourseCodes == {"A", "b", "C"}
RawPrereqCodes == {"a", "B", " c"}
NormalizedPlanCode == [c \in RawCourseCodes \cup RawPrereqCodes |-> normalize(c)]

\* StudyPlanCourse: courseCode and prerequisites (none, or one code)
PlanCourses ==
    [courseCode : RawCourseCodes,
     prerequisites : {<<>>} \cup {<<q>> : q \in RawPrereqCodes}]

\* the course entries of a plan, in the order the loops of prereqMap visit them
Plans == UNION {[1..n -> PlanCourses] : n \in 0..MaxCourses}

mapHas(m, k) == \E i \in 1..Len(m) : m[i].key = k

\* m.get(k) ?? []
mapGet(m, k) ==
    IF mapHas(m, k) THEN m[CHOOSE i \in 1..Len(m) : m[i].key = k].vals ELSE <<>>

\* if (!m.has(k)) m.set(k, new Set())
mapEnsure(m, k) == IF mapHas(m, k) THEN m ELSE Append(m, [key |-> k, vals |-> <<>>])

\* Set.prototype.add
setAdd(vals, x) == IF x \in Range(vals) THEN vals ELSE Append(vals, x)

RECURSIVE mapAddFrom(_, _, _, _)
mapAddFrom(m, k, x, i) ==
    IF i > Len(m) THEN <<>>
    ELSE IF m[i].key = k
         THEN <<[key |-> k, vals |-> setAdd(m[i].vals, x)]>> \o mapAddFrom(m, k, x, i + 1)
         ELSE <<m[i]>> \o mapAddFrom(m, k, x, i + 1)

\* m.get(k)!.add(x)
mapAdd(m, k, x) == mapAddFrom(m, k, x, 1)

RECURSIVE addReqs(_, _, _, _)
\* (reqs || []).forEach(r => out.get(key)!.add(normalize(r)))
addReqs(m, key, reqs, i) ==
    IF i > Len(reqs) THEN m
    ELSE addReqs(mapAdd(m, key, NormalizedPlanCode[reqs[i]]), key, reqs, i + 1)

\* add(code, reqs) of prereqMap
addCourse(m, code, reqs) ==
    IF NormalizedPlanCode[code] = "" THEN m
    ELSE addReqs(mapEnsure(m, NormalizedPlanCode[code]), NormalizedPlanCode[code], reqs, 1)

RECURSIVE prereqMapFrom(_, _, _)
prereqMapFrom(plan, i, m) ==
    IF i > Len(plan) THEN m
    ELSE prereqMapFrom(plan, i + 1, addCourse(m, plan[i].courseCode, plan[i].prerequisites))

\* course -> Set(prereqs)
prereqMapOf(plan) == prereqMapFrom(plan, 1, <<>>)

RECURSIVE invertReqsForward(_, _, _, _)
\* the loop body keeping the direction of the edge: m.get(course).add(r)
invertReqsForward(m, course, reqs, j) ==
    IF j > Len(reqs) THEN m
    ELSE invertReqsForward(mapAdd(mapEnsure(m, course), course, reqs[j]), course, reqs, j + 1)

RECURSIVE invertReqs(_, _, _, _)
\* for (const r of reqs) { if (!m.has(r)) m.set(r, new Set()); m.get(r)!.add(course) }
invertReqs(m, course, reqs, j) ==
    IF j > Len(reqs) THEN m
    ELSE invertReqs(mapAdd(mapEnsure(m, reqs[j]), reqs[j], course), course, reqs, j + 1)

RECURSIVE invertFrom(_, _, _)
invertFrom(pm, i, m) ==
    IF i > Len(pm) THEN m
    ELSE invertFrom(pm, i + 1, invertReqs(m, pm[i].key, pm[i].vals, 1))

\* course -> Set(courses that depend on it)
dependentsAdjOf(pm) == invertFrom(pm, 1, <<>>)

directPrereqs ==
    IF hoveredCode = Null THEN {} ELSE Range(mapGet(prereqMap, hoveredCode[1]))
\* the indirect set without the removal of the direct prerequisites
indirectPrereqsKeepingDirect == allPrereqAncestors

indirectPrereqs == allPrereqAncestors \ directPrereqs
directDependents ==
    IF hoveredCode = Null THEN {} ELSE Range(mapGet(dependentsAdj, hoveredCode[1]))
indirectDependents == allDependents \ directDependents

\* the traversal without its test of the out set
alreadyOutNever(seen, cur) == FALSE

\* if (out.has(cur)) continue
alreadyOut(seen, cur) == cur \in seen

\* the traversal pushing nothing for the node it adds
pushNeighboursOfNone(rest, adj, cur) == rest

\* for (const up of adj.get(cur) ?? []) stack.push(up)
pushNeighbours(rest, adj, cur) == rest \o mapGet(adj, cur)

\* stack after stack.pop()
popped(stk) == SubSeq(stk, 1, Len(stk) - 1)

\* one iteration of while (stack.length) over the adjacency adj
walkStep(adj) ==
    /\ Len(stack) > 0
    /\ IF alreadyOut(out, stack[Len(stack)])
       THEN /\ stack' = popped(stack)
            /\ UNCHANGED <<out, added>>
       ELSE /\ out' = out \cup {stack[Len(stack)]}
            /\ added' = Append(added, stack[Len(stack)])
            /\ stack' = pushNeighbours(popped(stack), adj, stack[Len(stack)])

\* onMouseEnter: setHoveredCode(codeKey); the render then starts allPrereqAncestors
mouseEnter(codeKey) ==
    /\ walk = "idle"
    /\ codeKey # ""
    /\ hoveredCode' = Some(codeKey)
    /\ walk' = "ancestors"
    /\ stack' = mapGet(prereqMap, codeKey)
    /\ out' = {}
    /\ added' = <<>>
    /\ UNCHANGED <<activePlan, prereqMap, dependentsAdj, allPrereqAncestors, allDependents>>

\* onMouseLeave: setHoveredCode(null); both traversals return the empty set
mouseLeave ==
    /\ walk = "idle"
    /\ hoveredCode # Null
    /\ hoveredCode' = Null
    /\ allPrereqAncestors' = {}
    /\ allDependents' = {}
    /\ UNCHANGED <<activePlan, prereqMap, dependentsAdj, walk, stack, out, added>>

ancestorsStep ==
    /\ walk = "ancestors"
    /\ walkStep(prereqMap)
    /\ UNCHANGED <<activePlan, prereqMap, dependentsAdj, hoveredCode, allPrereqAncestors, allDependents, walk>>

\* return out of allPrereqAncestors; the render goes on with allDependents
ancestorsReturn ==
    /\ walk = "ancestors"
    /\ Len(stack) = 0
    /\ allPrereqAncestors' = out
    /\ walk' = "dependents"
    /\ stack' = mapGet(dependentsAdj, hoveredCode[1])
    /\ out' = {}
    /\ added' = <<>>
    /\ UNCHANGED <<activePlan, prereqMap, dependentsAdj, hoveredCode, allDependents>>

dependentsStep ==
    /\ walk = "dependents"
    /\ walkStep(dependentsAdj)
    /\ UNCHANGED <<activePlan, prereqMap, dependentsAdj, hoveredCode, allPrereqAncestors, allDependents, walk>>

\* return out of allDependents
dependentsReturn ==
    /\ walk = "dependents"
    /\ Len(stack) = 0
    /\ allDependents' = out
    /\ walk' = "idle"
    /\ out' = {}
    /\ added' = <<>>
    /\ UNCHANGED <<activePlan, prereqMap, dependentsAdj, hoveredCode, allPrereqAncestors, stack>>

\* the codes of the plan's course cards, which carry the mouse handlers
hoverableCodes ==
    {NormalizedPlanCode[activePlan[i].courseCode] : i \in 1..Len(activePlan)}

GraphInit ==
    /\ SchedulerInit
    /\ HelperIdle
    /\ activePlan \in Plans
    /\ prereqMap = prereqMapOf(activePlan)
    /\ dependentsAdj = dependentsAdjOf(prereqMapOf(activePlan))
    /\ hoveredCode = Null
    /\ allPrereqAncestors = {}
    /\ allDependents = {}
    /\ walk = "idle"
    /\ stack = <<>>
    /\ out = {}
    /\ added = <<>>
    /\ previous = Null

\* the steps of a render in progress
Traverse ==
    \/ ancestorsStep
    \/ ancestorsReturn
    \/ dependentsStep
    \/ dependentsReturn

GraphNext ==
    \/ (\E c \in hoverableCodes : mouseEnter(c)) /\ UNCHANGED <<vars, helperVars, previous>>
    \/ mouseLeave /\ UNCHANGED <<vars, helperVars, previous>>
    \/ ancestorsStep /\ UNCHANGED <<vars, helperVars, previous>>
    \/ ancestorsReturn /\ UNCHANGED <<vars, helperVars, previous>>
    \/ dependentsStep /\ UNCHANGED <<vars, helperVars, previous>>
    \/ dependentsReturn /\ UNCHANGED <<vars, helperVars, previous>>

\* a render runs to its end: the traversal steps are not postponed forever
GraphSpec == GraphInit /\ [][GraphNext]_allVars /\ WF_allVars(Traverse /\ UNCHANGED <<vars, helperVars, previous>>)

(***************************************************************************)
(* The same handlers and traversals with the history of the render before  *)
(* the current one: when the hovered code changes, the code that was       *)
(* hovered and the sets its render had computed are kept in previous.      *)
(***************************************************************************)
rendered ==
    [code |-> hoveredCode[1],
     directPrereqs |-> directPrereqs, allPrereqAncestors |-> allPrereqAncestors,
     directDependents |-> directDependents, allDependents |-> allDependents]

remember == previous' = IF hoveredCode # Null THEN Some(rendered) ELSE previous

HistoryNext ==
    \/ (\E c \in hoverableCodes : mouseEnter(c)) /\ remember /\ UNCHANGED <<vars, helperVars>>
    \/ mouseLeave /\ remember /\ UNCHANGED <<vars, helperVars>>
    \/ ancestorsStep /\ UNCHANGED <<vars, helperVars, previous>>
    \/ ancestorsReturn /\ UNCHANGED <<vars, helperVars, previous>>
    \/ dependentsStep /\ UNCHANGED <<vars, helperVars, previous>>
    \/ dependentsReturn /\ UNCHANGED <<vars, helperVars, previous>>

HistorySpec == GraphInit /\ [][HistoryNext]_allVars

(***************************************************************************)
(* Notions the properties are stated with.  They are written from the      *)
(* snapshot, not from the solver's or the detector's own operators.        *)
(***************************************************************************)
Max2(a, b) == IF a > b THEN a ELSE b
Min2(a, b) == IF a < b THEN a ELSE b

\* same weekday, and the half-open intervals [start, end) share a minute
Intersects(a, b) == a.day = b.day /\ Max2(a.start, b.start) < Min2(a.end, b.end)

\* the overlap test of the design (section 4.2)
OverlapTest(a, b) == a.day = b.day /\ a.start < b.end /\ b.start < a.end

\* some block of section r1 intersects some block of section r2
SectionsClash(r1, r2) ==
    \E i \in 1..Len(blocksOf(r1)) : \E j \in 1..Len(blocksOf(r2)) :
        Intersects(blocksOf(r1)[i], blocksOf(r2)[j])

\* the sections of title t that pass the filter inc, among the records
CandidatesUnder(inc, t) ==
    {r \in Range(records) : (inc \/ Sec(r).openSection) /\ keyOf(r) = t}
CandidateSet(t) == CandidatesUnder(includeClosed, t)
OptionCRNs(t) == {crnOf(r) : r \in CandidateSet(t)}

\* the requested titles that have a candidate, as a set and in selection order
RequestedTitles == {t \in Range(selectedTitles) : CandidateSet(t) # {}}
RequestedSeq == SelectSeq(selectedTitles, LAMBDA t : CandidateSet(t) # {})

\* one candidate per requested title
Choices == {f \in [RequestedTitles -> Range(records)] :
               \A t \in RequestedTitles : f[t] \in CandidateSet(t)}
ConflictFree(f) ==
    \A t1 \in DOMAIN f : \A t2 \in DOMAIN f : t1 # t2 => ~SectionsClash(f[t1], f[t2])

\* the CRNs owning a block that overlaps another block of the flattened list
ConflictReference(sol) ==
    LET blocks == flatBlocks(sol, 1)
    IN  {blocks[i].crn : i \in {i \in 1..Len(blocks) :
            \E j \in 1..Len(blocks) : j # i /\ OverlapTest(blocks[i], blocks[j])}}

AfterGenerate == last.op = "generateSchedule"
GenerateSucceeded == last.op = "generateSchedule" /\ last.outcome = "ok"

(***************************************************************************)
(* C1.  Whenever generateSchedule succeeds, the stored assignment holds,   *)
(* for every two distinct requested titles, two chosen sections none of    *)
(* whose blocks intersect.                                                 *)
(***************************************************************************)
C1_GeneratedSectionsDoNotOverlap ==
    GenerateSucceeded =>
        /\ solution # Null
        /\ \A t1 \in RequestedTitles : \A t2 \in RequestedTitles :
              t1 # t2 =>
                 /\ hasKey(solution[1], t1)
                 /\ hasKey(solution[1], t2)
                 /\ ~SectionsClash(getKey(solution[1], t1), getKey(solution[1], t2))

\* a schedule over two titles was generated after the first candidate of the
\* first title had to be given up
C1_Witness ==
    /\ GenerateSucceeded
    /\ Cardinality(RequestedTitles) >= 2
    /\ solution[1][1].sec # titleToSections(solution[1][1].title)[1]

(***************************************************************************)
(* C2.  After any call of generateSchedule the stored assignment is absent *)
(* or maps every requested title with a candidate to exactly one section   *)
(* of that title's candidate list; no partial mapping is stored.           *)
(***************************************************************************)
C2_CompleteOrAbsent ==
    AfterGenerate =>
        \/ solution = Null
        \/ /\ Len(solution[1]) = Cardinality(RequestedTitles)
           /\ Range(keysOf(solution[1])) = RequestedTitles
           /\ \A i \in 1..Len(solution[1]) :
                 solution[1][i].sec \in CandidateSet(solution[1][i].title)

\* a schedule was stored while one selected title had no candidate
C2_Witness ==
    /\ GenerateSucceeded
    /\ solution # Null
    /\ Len(selectedTitles) > Len(solution[1])

(***************************************************************************)
(* C3.  generateSchedule reports infeasibility only because of time        *)
(* incompatibility: when some choice of one candidate per requested title  *)
(* is pairwise non-overlapping, a complete assignment is returned.         *)
(***************************************************************************)
C3_FeasibleIsSolved ==
    (AfterGenerate /\ RequestedTitles # {} /\ \E f \in Choices : ConflictFree(f))
        => solution # Null

(***************************************************************************)
(* C4.  A section with zero blocks is still assignable: a requested title  *)
(* whose only candidate has zero blocks gets that candidate in the         *)
(* assignment, and the result is not infeasible.                           *)
(***************************************************************************)
C4_ZeroBlockSectionAssignable ==
    (AfterGenerate /\ \E f \in Choices : ConflictFree(f)) =>
        \A t \in RequestedTitles : \A r \in CandidateSet(t) :
            (CandidateSet(t) = {r} /\ Len(blocksOf(r)) = 0) =>
                /\ solution # Null
                /\ hasKey(solution[1], t)
                /\ getKey(solution[1], t) = r

(***************************************************************************)
(* C5.  First solution wins: the returned assignment is the                *)
(* lexicographically smallest conflict-free vector of candidate-list       *)
(* positions over the requested titles in their order.                     *)
(***************************************************************************)
PositionVectors ==
    {v \in [1..Len(RequestedSeq) -> 1..Len(records)] :
        \A i \in 1..Len(RequestedSeq) : v[i] <= Len(titleToSections(RequestedSeq[i]))}
SectionAt(v, i) == titleToSections(RequestedSeq[i])[v[i]]
ConflictFreeVector(v) ==
    \A i \in DOMAIN v : \A j \in DOMAIN v :
        i # j => ~SectionsClash(SectionAt(v, i), SectionAt(v, j))
LexLeq(u, v) ==
    \/ u = v
    \/ \E i \in DOMAIN u : u[i] < v[i] /\ \A j \in 1..(i - 1) : u[j] = v[j]
IsStoredVector(v) ==
    \A i \in DOMAIN v :
        /\ hasKey(solution[1], RequestedSeq[i])
        /\ getKey(solution[1], RequestedSeq[i]) = SectionAt(v, i)

C5_FirstSolutionWins ==
    GenerateSucceeded =>
        \E v \in PositionVectors :
            /\ IsStoredVector(v)
            /\ ConflictFreeVector(v)
            /\ \A u \in PositionVectors : ConflictFreeVector(u) => LexLeq(v, u)

(***************************************************************************)
(* C6.  findConflicts returns exactly the CRNs that own a block            *)
(* overlapping some other block of the flattened block list of the         *)
(* assigned sections.                                                      *)
(***************************************************************************)
C6_FindConflictsExact ==
    solution # Null => findConflicts(solution[1]) = ConflictReference(solution[1])

\* an assignment in which one section is in conflict and another is not
C6_Witness ==
    /\ solution # Null
    /\ findConflicts(solution[1]) # {}
    /\ \E i \in 1..Len(solution[1]) :
          crnOf(solution[1][i].sec) \notin findConflicts(solution[1])

(***************************************************************************)
(* C7.  In every reachable state the stored conflict set is the Conflict   *)
(* Detector's result on the stored assignment, and is empty when no        *)
(* assignment is stored.                                                   *)
(***************************************************************************)
C7_ConflictSetIsCurrent ==
    conflictCRNs = IF solution = Null THEN {} ELSE ConflictReference(solution[1])

(***************************************************************************)
(* C8.  overrideSection with an identifier that is not among the title's   *)
(* options, or without an assignment, changes neither the assignment nor   *)
(* the conflict set nor the status line.                                   *)
(***************************************************************************)
C8_UnknownOverrideIsNoOp ==
    [][ ( /\ last'.op = "overrideSection"
          /\ \/ solution = Null
             \/ last'.crn \notin OptionCRNs(last'.title) )
        => UNCHANGED <<solution, conflictCRNs, status>> ]_vars

\* an override naming an identifier outside the options met a stored assignment
C8_Witness ==
    /\ last.op = "overrideSection"
    /\ last.outcome = "noPick"
    /\ solution # Null
    /\ last.crn \notin OptionCRNs(last.title)

(***************************************************************************)
(* C9.  A successful overrideSection(title, crn) replaces only the entry   *)
(* of that title by the named section: the assigned titles and every other *)
(* entry are unchanged, and the overlaps it introduces are reported in the *)
(* conflict set, not rejected.                                             *)
(***************************************************************************)
C9_OverrideReplacesOneEntry ==
    [][ ( /\ last'.op = "overrideSection"
          /\ solution # Null
          /\ last'.crn \in OptionCRNs(last'.title) )
        => /\ solution' # Null
           /\ keysOf(solution'[1]) = keysOf(solution[1])
           /\ \A i \in 1..Len(solution[1]) :
                 IF solution[1][i].title = last'.title
                 THEN /\ crnOf(solution'[1][i].sec) = last'.crn
                      /\ solution'[1][i].sec \in CandidateSet(last'.title)
                 ELSE solution'[1][i] = solution[1][i]
           /\ conflictCRNs' = ConflictReference(solution'[1]) ]_vars

\* an override was applied although it made two assigned sections overlap
C9_Witness ==
    /\ last.op = "overrideSection"
    /\ last.outcome = "applied"
    /\ Len(solution[1]) >= 2
    /\ Cardinality(conflictCRNs) >= 2

(***************************************************************************)
(* C10.  As claimed: a section that was in the title's option list when    *)
(* the schedule was generated can still be chosen by overrideSection,      *)
(* whatever the include-closed filter is now.                              *)
(***************************************************************************)
C10_LookupIgnoresFilter ==
    [][ ( /\ last'.op = "overrideSection"
          /\ solution # Null
          /\ last'.crn \in {crnOf(r) : r \in CandidatesUnder(genIncludeClosed, last'.title)} )
        => /\ last'.outcome = "applied"
           /\ crnOf(getKey(solution'[1], last'.title)) = last'.crn ]_vars

(***************************************************************************)
(* C10, amended.  The override lookup uses the title's candidate list      *)
(* under the current include-closed filter: the override is applied        *)
(* exactly when the identifier names a section of that list, so with the   *)
(* filter switched off a closed section is never chosen.                   *)
(***************************************************************************)
C10_LookupHonoursFilter ==
    [][ ( /\ last'.op = "overrideSection"
          /\ solution # Null )
        => /\ (last'.outcome = "applied") <=> (last'.crn \in OptionCRNs(last'.title))
           /\ (last'.outcome # "applied") => UNCHANGED solution
           /\ (last'.outcome = "applied" /\ ~includeClosed)
                 => Sec(getKey(solution'[1], last'.title)).openSection ]_vars

\* with the filter switched off after a generation that included closed
\* sections, an override naming a closed section of the title did nothing
C10_Witness ==
    /\ last.op = "overrideSection"
    /\ last.outcome = "noPick"
    /\ solution # Null
    /\ ~includeClosed
    /\ genIncludeClosed
    /\ \E r \in Range(records) :
          /\ keyOf(r) = last.title
          /\ crnOf(r) = last.crn
          /\ ~Sec(r).openSection

(***************************************************************************)
(* C11.  The detector gives the same set each time it is run on the stored *)
(* assignment, and overrideSection(title, crn) with crn the section        *)
(* already assigned to title leaves the assignment and the conflict set as *)
(* they were.                                                              *)
(***************************************************************************)
C11_OverrideToSameSectionKeepsState ==
    [][ ( /\ last'.op = "overrideSection"
          /\ solution # Null
          /\ hasKey(solution[1], last'.title)
          /\ crnOf(getKey(solution[1], last'.title)) = last'.crn )
        => /\ solution' = solution
           /\ conflictCRNs' = conflictCRNs
           /\ conflictCRNs' = ConflictReference(solution'[1])
           /\ findConflicts(solution'[1]) = findConflicts(solution[1]) ]_vars

\* the only candidate of a title, which is therefore the one assigned under
\* the same filter, was chosen again while it is in conflict
C11_Witness ==
    /\ last.op = "overrideSection"
    /\ last.outcome = "applied"
    /\ includeClosed = genIncludeClosed
    /\ Cardinality(CandidateSet(last.title)) = 1
    /\ conflictCRNs # {}

(***************************************************************************)
(* C13.  Every candidate list follows the preference order: of two         *)
(* sections of a list the earlier one is open while the later is closed,   *)
(* or both have the same open flag and the earlier has more seats (a       *)
(* missing count being -1), or flag and seats agree and the earlier one's  *)
(* earliest block start is not later (no block being the maximum start).   *)
(***************************************************************************)
SeatsOf(r) == IF Len(Sec(r).seatsAvailable) = 0 THEN -1 ELSE Sec(r).seatsAvailable[1]
FirstStart(r) ==
    IF Len(blocksOf(r)) = 0 THEN 99999
    ELSE CHOOSE m \in {blocksOf(r)[i].start : i \in 1..Len(blocksOf(r))} :
            \A i \in 1..Len(blocksOf(r)) : m <= blocksOf(r)[i].start
Preferred(a, b) ==
    \/ Sec(a).openSection /\ ~Sec(b).openSection
    \/ /\ Sec(a).openSection = Sec(b).openSection
       /\ SeatsOf(a) > SeatsOf(b)
    \/ /\ Sec(a).openSection = Sec(b).openSection
       /\ SeatsOf(a) = SeatsOf(b)
       /\ FirstStart(a) <= FirstStart(b)

C13_CandidateListsOrdered ==
    \A t \in AllTitles :
        \A i \in 1..Len(titleToSections(t)) : \A j \in 1..Len(titleToSections(t)) :
            i < j => Preferred(titleToSections(t)[i], titleToSections(t)[j])

\* a list of three sections that is not in snapshot order: seats decide the
\* head, and the earliest start decides between the other two
C13_Witness ==
    \E t \in AllTitles :
        /\ Len(titleToSections(t)) = 3
        /\ titleToSections(t) # SelectSeq(records, LAMBDA r : keyOf(r) = t)
        /\ SeatsOf(titleToSections(t)[2]) = SeatsOf(titleToSections(t)[3])

(***************************************************************************)
(* C14.  The candidate list of a title key holds exactly the snapshot's    *)
(* sections of that key that pass the filter, each once: only open ones,   *)
(* and all of them, with include-closed off; all sections of the key with  *)
(* include-closed on.  The offered title keys are those with a candidate.  *)
(***************************************************************************)
C14_CandidateListsExact ==
    /\ \A t \in AllTitles :
          /\ Range(titleToSections(t)) = CandidateSet(t)
          /\ Len(titleToSections(t)) = Cardinality(CandidateSet(t))
          /\ ~includeClosed => \A r \in Range(titleToSections(t)) : Sec(r).openSection
          /\ includeClosed =>
                Range(titleToSections(t)) = {r \in Range(records) : keyOf(r) = t}
    /\ titles = {t \in AllTitles : CandidateSet(t) # {}}

\* with include-closed on, a title has an open and a closed candidate
C14_Witness ==
    /\ includeClosed
    /\ \E t \in AllTitles : \E a \in Range(titleToSections(t)) :
          \E b \in Range(titleToSections(t)) : Sec(a).openSection /\ ~Sec(b).openSection

(***************************************************************************)
(* C15.  A requested title with an empty candidate list is skipped by      *)
(* generateSchedule: it gets no entry, and the outcome is that of the      *)
(* search over the remaining titles alone, so it never makes them          *)
(* infeasible.                                                             *)
(***************************************************************************)
SearchOver(seq) ==
    IF Len(seq) = 0 THEN Null
    ELSE IF dfs(seq, 1, <<>>, <<>>).ok THEN Some(dfs(seq, 1, <<>>, <<>>).chosen)
         ELSE Null
HasBlocks(r) == Len(blocksOf(r)) > 0

C15_EmptyTitlesSkipped ==
    AfterGenerate =>
        /\ \A t \in Range(selectedTitles) :
              CandidateSet(t) = {} => (solution = Null \/ ~hasKey(solution[1], t))
        /\ solution = SearchOver(RequestedSeq)
        /\ ( /\ RequestedTitles # {}
             /\ \E f \in Choices :
                   ConflictFree(f) /\ \A t \in DOMAIN f : HasBlocks(f[t]) )
           => solution # Null

\* a schedule was generated for the other title while one selected title had
\* no candidate
C15_Witness ==
    /\ GenerateSucceeded
    /\ \E t \in Range(selectedTitles) : CandidateSet(t) = {}
    /\ Len(solution[1]) >= 1

(***************************************************************************)
(* C16.  When no requested title has a candidate, generateSchedule does    *)
(* not search: it reports "nothing to schedule", which differs from the    *)
(* infeasible report, and stores no assignment.  An exhausted search is    *)
(* reported as infeasible and stores no assignment.                        *)
(***************************************************************************)
C16_NothingToScheduleIsDistinct ==
    /\ StSelectOne # StInfeasible
    /\ AfterGenerate =>
          /\ RequestedTitles = {} =>
                (last.outcome = "nothing" /\ status = StSelectOne /\ solution = Null)
          /\ RequestedTitles # {} =>
                (last.outcome # "nothing" /\ status \in {StGenerated, StInfeasible})
          /\ (RequestedTitles # {} /\ SearchOver(RequestedSeq) = Null) =>
                (last.outcome = "infeasible" /\ status = StInfeasible /\ solution = Null)
          /\ solution # Null => status = StGenerated

\* generateSchedule was called while titles were selected but none had a candidate
C16_Witness ==
    /\ AfterGenerate
    /\ Len(selectedTitles) > 0
    /\ RequestedTitles = {}
    /\ status = StSelectOne

(***************************************************************************)
(* C17.  A successful ingestJson replaces the records and leaves no        *)
(* assignment and an empty conflict set; hence a stored assignment only    *)
(* ever refers to sections of the current snapshot.                        *)
(***************************************************************************)
C17_LoadInvalidatesAssignment ==
    /\ [](solution # Null =>
             \A i \in 1..Len(solution[1]) : solution[1][i].sec \in Range(records))
    /\ [][ (last'.op = "ingestJson" /\ status' # StNoRecords)
           => /\ Len(records') > 0
              /\ solution' = Null
              /\ conflictCRNs' = {} ]_vars

\* a snapshot was loaded into a session whose selection names a title the
\* new snapshot does not have
C17_Witness ==
    /\ last.op = "ingestJson"
    /\ last.outcome = "loaded"
    /\ solution = Null
    /\ \E t \in Range(selectedTitles) : \A r \in Range(records) : keyOf(r) # t

(***************************************************************************)
(* C18.  An empty or wrongly shaped snapshot is rejected with the "no      *)
(* records" status and changes nothing else: records, selected titles,     *)
(* assignment and conflict set keep their values.  Without a loaded        *)
(* snapshot there are no title keys.                                       *)
(***************************************************************************)
C18_EmptySnapshotRejected ==
    /\ [](records = <<>> => titles = {})
    /\ [][ last'.op = "ingestJson"
           => \/ Len(records') > 0 /\ status' # StNoRecords
              \/ /\ status' = StNoRecords
                 /\ UNCHANGED <<records, selectedTitles, solution, conflictCRNs>> ]_vars

\* an empty snapshot was rejected while an assignment was stored
C18_Witness ==
    /\ last.op = "ingestJson"
    /\ last.outcome = "rejected"
    /\ status = StNoRecords
    /\ solution # Null

(***************************************************************************)
(* C12.  overlap(a, b) is true exactly when a and b are on the same        *)
(* weekday, a.start < b.end and b.start < a.end; so it is symmetric,       *)
(* false for blocks on different days, and false for blocks that only      *)
(* touch at an endpoint (a.end = b.start).                                 *)
(***************************************************************************)
C12_OverlapTest ==
    overlapResult # None =>
        /\ overlapResult[1] = OverlapTest(overlapArgs[1], overlapArgs[2])
        /\ overlapResult[1] = overlap(overlapArgs[2], overlapArgs[1])
        /\ overlapArgs[1].day # overlapArgs[2].day => ~overlapResult[1]
        /\ overlapArgs[1].end = overlapArgs[2].start => ~overlapResult[1]

\* the design's example: (monday, 900, 950) and (monday, 950, 1000) do not overlap
C12_Witness ==
    /\ overlapResult = Some(FALSE)
    /\ overlapArgs[1].day = "monday" /\ overlapArgs[2].day = "monday"
    /\ overlapArgs[1].start = 900 /\ overlapArgs[1].end = 950
    /\ overlapArgs[2].start = 950 /\ overlapArgs[2].end = 1000

(***************************************************************************)
(* The requires-graph of the active plan, read off its course entries:     *)
(* <<c, q>> when an entry of course c lists q as a prerequisite.           *)
(***************************************************************************)
RequiresEdges ==
    {<<NormalizedPlanCode[activePlan[i].courseCode],
       NormalizedPlanCode[activePlan[i].prerequisites[1]]>> :
        i \in {k \in 1..Len(activePlan) : Len(activePlan[k].prerequisites) > 0}}
RequiredByEdges == {<<e[2], e[1]>> : e \in RequiresEdges}
Successors(S, E) == {e[2] : e \in {d \in E : d[1] \in S}}

RECURSIVE Closure(_, _)
Closure(S, E) ==
    IF Successors(S, E) \subseteq S THEN S ELSE Closure(S \cup Successors(S, E), E)

\* the codes reachable from q by a path of one or more edges of E
ReachableFrom(q, E) == Closure(Successors({q}, E), E)

RenderDone == walk = "idle" /\ hoveredCode # Null

(***************************************************************************)
(* C19.  For every hovered code q and every requires-graph, the transitive *)
(* prerequisite set is the set of codes reachable from q by one or more    *)
(* requires edges and the transitive dependent set is the set of codes     *)
(* that reach q; the direct sets are the one-step neighbours and the       *)
(* indirect sets the rest.                                                 *)
(***************************************************************************)
C19_TraversalsComputeReachability ==
    RenderDone =>
        /\ allPrereqAncestors = ReachableFrom(hoveredCode[1], RequiresEdges)
        /\ allDependents = ReachableFrom(hoveredCode[1], RequiredByEdges)
        /\ directPrereqs = Successors({hoveredCode[1]}, RequiresEdges)
        /\ directDependents = Successors({hoveredCode[1]}, RequiredByEdges)
        /\ indirectPrereqs =
              ReachableFrom(hoveredCode[1], RequiresEdges)
                 \ Successors({hoveredCode[1]}, RequiresEdges)
        /\ indirectDependents =
              ReachableFrom(hoveredCode[1], RequiredByEdges)
                 \ Successors({hoveredCode[1]}, RequiredByEdges)

\* the design's chain, C requires B requires A, queried at C
C19_Witness ==
    /\ RenderDone
    /\ RequiresEdges = {<<"C", "B">>, <<"B", "A">>}
    /\ hoveredCode = Some("C")
    /\ directPrereqs = {"B"}
    /\ indirectPrereqs = {"A"}
    /\ allDependents = {}

(***************************************************************************)
(* C20.  Both traversals terminate on every requires-graph, cyclic ones    *)
(* included: a code is added to the result, and expanded, at most once,    *)
(* and every render that starts a traversal finishes; on the two-node      *)
(* cycle each node's query reports the other one.                          *)
(***************************************************************************)
NoRepeat(seq) == \A i \in 1..Len(seq) : \A j \in 1..Len(seq) : i # j => seq[i] # seq[j]
OnTwoCycle ==
    /\ RenderDone
    /\ RequiresEdges = {<<"A", "B">>, <<"B", "A">>}
    /\ hoveredCode[1] \in {"A", "B"}

C20_TraversalsTerminate ==
    /\ [](NoRepeat(added) /\ Range(added) = out)
    /\ [](OnTwoCycle => ( /\ {"A", "B"} \subseteq allPrereqAncestors
                          /\ {"A", "B"} \subseteq allDependents ))
    /\ (walk # "idle") ~> (walk = "idle")

\* the query on A over the two-node cycle has finished
C20_Witness ==
    /\ OnTwoCycle
    /\ hoveredCode = Some("A")
    /\ allPrereqAncestors = {"A", "B"}
    /\ allDependents = {"A", "B"}

(***************************************************************************)
(* C21.  Once a render is done, the indirect prerequisite set is the       *)
(* transitive set minus the direct set, and likewise for dependents: the   *)
(* direct and the indirect set are disjoint and their union is the         *)
(* transitive set.  The direct set is what the adjacency map holds for the *)
(* hovered code: empty when the map has no entry for it, and all sets are  *)
(* empty when nothing is hovered.                                          *)
(***************************************************************************)
EntryVals(m, k) == UNION {Range(m[i].vals) : i \in {j \in 1..Len(m) : m[j].key = k}}
HasEntry(m, k) == \E i \in 1..Len(m) : m[i].key = k

C21_DirectAndIndirectPartition ==
    walk = "idle" =>
        /\ directPrereqs \cap indirectPrereqs = {}
        /\ directPrereqs \cup indirectPrereqs = allPrereqAncestors
        /\ directDependents \cap indirectDependents = {}
        /\ directDependents \cup indirectDependents = allDependents
        /\ hoveredCode = Null =>
              /\ directPrereqs = {} /\ indirectPrereqs = {}
              /\ directDependents = {} /\ indirectDependents = {}
        /\ hoveredCode # Null =>
              /\ directPrereqs = EntryVals(prereqMap, hoveredCode[1])
              /\ directDependents = EntryVals(dependentsAdj, hoveredCode[1])
              /\ ~HasEntry(dependentsAdj, hoveredCode[1]) => directDependents = {}

\* a course with a direct and an indirect prerequisite and no entry in the
\* dependents map is hovered
C21_Witness ==
    /\ RenderDone
    /\ directPrereqs # {}
    /\ indirectPrereqs # {}
    /\ ~HasEntry(dependentsAdj, hoveredCode[1])
    /\ allDependents = {}

(***************************************************************************)
(* C23.  dependentsAdj is the transpose of prereqMap: v is a direct        *)
(* dependent of u exactly when u is a direct prerequisite of v.  The two   *)
(* traversals mirror each other: for the code u of one render and the code *)
(* v of the next, v is in the transitive dependents of u exactly when u is *)
(* in the transitive prerequisites of v, and the other way round.          *)
(***************************************************************************)
GraphCodes == {NormalizedPlanCode[c] : c \in RawCourseCodes \cup RawPrereqCodes}

C23_DependentsMirrorPrerequisites ==
    /\ \A u \in GraphCodes : \A v \in GraphCodes :
          v \in EntryVals(dependentsAdj, u) <=> u \in EntryVals(prereqMap, v)
    /\ (RenderDone /\ previous # Null) =>
          /\ hoveredCode[1] \in previous[1].allDependents
                <=> previous[1].code \in allPrereqAncestors
          /\ previous[1].code \in allDependents
                <=> hoveredCode[1] \in previous[1].allPrereqAncestors
          /\ hoveredCode[1] \in previous[1].directDependents
                <=> previous[1].code \in directPrereqs
          /\ previous[1].code \in directDependents
                <=> hoveredCode[1] \in previous[1].directPrereqs

\* after the render of a course, a course that depends on it through a third
\* one was hovered
C23_Witness ==
    /\ RenderDone
    /\ previous # Null
    /\ previous[1].code # hoveredCode[1]
    /\ hoveredCode[1] \in previous[1].allDependents \ previous[1].directDependents
    /\ previous[1].code \in indirectPrereqs

(***************************************************************************)
(* C22.  Immediately after generateSchedule succeeds the stored conflict   *)
(* set is empty: the Conflict Detector finds no overlapping pair in an     *)
(* assignment the solver produced, whatever the snapshot, sections whose   *)
(* own meeting entries overlap each other included.                        *)
(***************************************************************************)
C22_GeneratedScheduleHasNoConflicts ==
    GenerateSucceeded => conflictCRNs = {}

(***************************************************************************)
(* C24.  blocksForSection returns, for every section, one block for each   *)
(* meeting entry whose start and end time both parse and each weekday      *)
(* Monday..Friday flagged on it, and nothing else: entries without a       *)
(* parseable start or end and weekend flags give no block.  Each block     *)
(* carries the section's identifier and the entry's start and end, and     *)
(* the blocks are in meeting-entry order, Monday to Friday within an entry.*)
(***************************************************************************)
Weekdays == <<"monday", "tuesday", "wednesday", "thursday", "friday">>

\* the minutes of the sample time strings that are well formed
ExpectedMinutes == [t \in {"0900", "1030"} |-> IF t = "0900" THEN 540 ELSE 630]
Parses(t) == t \in DOMAIN ExpectedMinutes

\* the entries of rec with a parseable start and end
UsableEntries(rec) ==
    {i \in 1..Len(rec.meetingsFaculty) :
        /\ rec.meetingsFaculty[i].meetingTime # None
        /\ Parses(rec.meetingsFaculty[i].meetingTime[1].beginTime)
        /\ Parses(rec.meetingsFaculty[i].meetingTime[1].endTime)}

\* <<entry, weekday number>> for each weekday flagged on a usable entry
Slots(rec) ==
    {s \in UsableEntries(rec) \X (1..5) :
        Weekdays[s[2]] \in rec.meetingsFaculty[s[1]].meetingTime[1].days}

\* the position of slot s in entry order, Monday to Friday within an entry
Rank(rec, s) ==
    Cardinality({x \in Slots(rec) : x[1] < s[1] \/ (x[1] = s[1] /\ x[2] <= s[2])})

C24_BlocksOfParseableWeekdays ==
    blocksResult # None =>
        /\ Len(blocksResult[1]) = Cardinality(Slots(blocksArg))
        /\ \A s \in Slots(blocksArg) :
              /\ blocksResult[1][Rank(blocksArg, s)].day = Weekdays[s[2]]
              /\ blocksResult[1][Rank(blocksArg, s)].start =
                    ExpectedMinutes[blocksArg.meetingsFaculty[s[1]].meetingTime[1].beginTime]
              /\ blocksResult[1][Rank(blocksArg, s)].end =
                    ExpectedMinutes[blocksArg.meetingsFaculty[s[1]].meetingTime[1].endTime]
              /\ blocksResult[1][Rank(blocksArg, s)].crn = blocksArg.courseReferenceNumber

\* an entry with flagged days and a start that does not parse, followed by a
\* well-formed entry flagged Monday, Wednesday and Saturday: two blocks
C24_Witness ==
    /\ blocksResult # None
    /\ Len(blocksArg.meetingsFaculty) = 2
    /\ blocksArg.meetingsFaculty[1] = Meet("TBA", "1030", {"friday", "monday"})
    /\ blocksArg.meetingsFaculty[2] = Meet("0900", "1030", {"monday", "saturday", "wednesday"})
    /\ Len(blocksResult[1]) = 2
    /\ blocksResult[1][1].day = "monday"
    /\ blocksResult[1][2].day = "wednesday"

(***************************************************************************)
(* C25.  Every step that changes the selected titles leaves no assignment  *)
(* and an empty conflict set; a click on an offered title, removeTitle,    *)
(* clearSelections and a toggle by a code with a candidate are such steps. *)
(* A toggle by a code that no section of the snapshot has, or whose title  *)
(* has no candidate under the current filter, changes neither the          *)
(* selection nor the assignment nor the conflict set.                      *)
(***************************************************************************)
\* code names no section of the snapshot, or only sections of titles without
\* a candidate under the current filter
CodeOfSection == [r \in Refs |-> toUpperCase(Sec(r).subject \o Sec(r).courseNumber)]
CodeAsLookedUp == [c \in PlanCodes |-> toUpperCase(removeSpaces(c))]
NoCandidateFor(code) ==
    \A r \in Range(records) :
        CodeOfSection[r] = CodeAsLookedUp[code] => CandidateSet(keyOf(r)) = {}

C25_SelectionChangeDiscardsResult ==
    [][ /\ selectedTitles' # selectedTitles => (solution' = Null /\ conflictCRNs' = {})
        /\ last'.op \in {"offeredTitleClick", "removeTitle", "clearSelections"}
              => selectedTitles' # selectedTitles
        /\ (last'.op = "toggleSelectByCode" /\ ~NoCandidateFor(last'.code))
              => selectedTitles' # selectedTitles
        /\ (last'.op = "toggleSelectByCode" /\ NoCandidateFor(last'.code))
              => UNCHANGED <<selectedTitles, solution, conflictCRNs>> ]_vars

\* with an assignment stored, a toggle by the code of a course of the snapshot
\* whose sections are all closed did nothing
C25_Witness ==
    /\ last.op = "toggleSelectByCode"
    /\ last.outcome = "notAvailable"
    /\ solution # Null
    /\ NoCandidateFor(last.code)
    /\ \E r \in Range(records) : CodeOfSection[r] = CodeAsLookedUp[last.code]

(***************************************************************************)
(* C26.  In every reachable state with a stored assignment, each assigned  *)
(* title is one of the selected titles and its section is in the candidate *)
(* list of that title under the current snapshot and the current           *)
(* include-closed filter.                                                  *)
(***************************************************************************)
C26_AssignmentWithinCurrentCandidates ==
    solution # Null =>
        \A i \in 1..Len(solution[1]) :
            /\ solution[1][i].title \in Range(selectedTitles)
            /\ solution[1][i].sec \in CandidateSet(solution[1][i].title)

====
